---------------------------- MODULE Spec2Model ----------------------------
(***************************************************************************)
(* A model of spec-check: the comparator (src/src/comparator.rs), the      *)
(* markdown sample extractor (src/src/markdown_parser.rs), the declaration *)
(* extractor (src/src/rust_parser.rs) and the per-file loop of main        *)
(* (src/src/main.rs).                                                      *)
(*                                                                         *)
(* Text is modelled as a sequence of characters; every character is a      *)
(* one-character string.  Every token of the target language is written    *)
(* with one character: "s" struct, "e" enum, "t" trait, "f" fn, "p" pub,   *)
(* "c" const, "y" type, "i" impl, "m" mod, upper-case letters and "g", "h" *)
(* are identifiers, "W" is an identifier made of one two-byte character.   *)
(***************************************************************************)
EXTENDS Integers, Sequences, FiniteSets, TLC

(***************************************************************************)
(* Bounds of the model.                                                    *)
(***************************************************************************)
\* The number of declarations of the two lists of a comparison together.
MaxItems == 4
\* The number of events of a document.
MaxEvents == 7
\* The number of chunks of a source text.
MaxChunks == 2
\* The number of source files of a run.
MaxFiles == 2
\* The length of a signature string, in characters.
MaxSigLen == 3

(***************************************************************************)
(* Strings.                                                                *)
(***************************************************************************)
\* The characters of the model in byte order (the order str's Ord uses).
Alphabet ==
    << " ", "#", "(", ")", ",", ":", ";", "A", "B", "T", "U", "[", "]",
       "c", "d", "e", "f", "g", "h", "i", "m", "p", "s", "t", "x", "y",
       "{", "}", "W" >>

CharRank(c) == CHOOSE i \in 1..Len(Alphabet) : Alphabet[i] = c

\* The number of bytes of a character in UTF-8.
Utf8Len(c) == IF c = "W" THEN 2 ELSE 1

RECURSIVE ByteLen(_)
\* str::len: the length of a string in bytes.
ByteLen(s) == IF s = << >> THEN 0 ELSE Utf8Len(Head(s)) + ByteLen(Tail(s))

Min(a, b) == IF a <= b THEN a ELSE b

\* The set of the entries of a sequence.
Range(s) == {s[i] : i \in DOMAIN s}

\* str::starts_with
StartsWith(s, prefix) ==
    /\ Len(prefix) <= Len(s)
    /\ SubSeq(s, 1, Len(prefix)) = prefix

\* str::contains: the pattern occurs as a substring (the empty pattern always).
Contains(s, pat) ==
    \E k \in 0..Len(s) :
        /\ k + Len(pat) <= Len(s)
        /\ SubSeq(s, k + 1, k + Len(pat)) = pat

IsWhitespace(c) == c = " "

RECURSIVE TrimStart(_)
TrimStart(s) ==
    IF s # << >> /\ IsWhitespace(Head(s)) THEN TrimStart(Tail(s)) ELSE s

RECURSIVE TrimEnd(_)
TrimEnd(s) ==
    IF s # << >> /\ IsWhitespace(s[Len(s)])
    THEN TrimEnd(SubSeq(s, 1, Len(s) - 1))
    ELSE s

\* str::trim
Trim(s) == TrimEnd(TrimStart(s))

RECURSIVE StrLess(_, _)
\* The lexicographic order of String.
StrLess(a, b) ==
    IF b = << >> THEN FALSE
    ELSE IF a = << >> THEN TRUE
    ELSE IF Head(a) # Head(b) THEN CharRank(Head(a)) < CharRank(Head(b))
    ELSE StrLess(Tail(a), Tail(b))

RECURSIVE InsertSorted(_, _)
InsertSorted(x, sorted) ==
    IF sorted = << >> THEN << x >>
    ELSE IF StrLess(x, Head(sorted)) THEN << x >> \o sorted
    ELSE << Head(sorted) >> \o InsertSorted(x, Tail(sorted))

RECURSIVE SortStrings(_)
\* Vec<String>::sort
SortStrings(v) ==
    IF v = << >> THEN << >>
    ELSE InsertSorted(v[Len(v)], SortStrings(SubSeq(v, 1, Len(v) - 1)))

RECURSIVE TokensToString(_)
\* TokenStream::to_string: the tokens, one space between two of them.
TokensToString(tokens) ==
    IF tokens = << >> THEN << >>
    ELSE IF Len(tokens) = 1 THEN << tokens[1] >>
    ELSE << Head(tokens), " " >> \o TokensToString(Tail(tokens))

(***************************************************************************)
(* Option                                                                  *)
(***************************************************************************)
None == [some |-> FALSE]
Some(v) == [some |-> TRUE, val |-> v]

(***************************************************************************)
(* RustItem and ItemKind                                                   *)
(***************************************************************************)
KindStruct == [tag |-> "Struct"]
KindEnum == [tag |-> "Enum"]
KindTrait == [tag |-> "Trait"]
KindTraitMethod(trait_name) == [tag |-> "TraitMethod", trait_name |-> trait_name]
KindFunction == [tag |-> "Function"]

\* RustItem::new
RustItem(name, kind, signature, tokens, attributes, line_number) ==
    [name |-> name, kind |-> kind, signature |-> signature, tokens |-> tokens,
     attributes |-> attributes, line_number |-> line_number]

\* format!("{:?}", kind): the derived Debug text of an ItemKind.
KindDebug(kind) ==
    IF kind.tag = "TraitMethod"
    THEN << "TraitMethod", "trait_name", kind.trait_name >>
    ELSE << kind.tag >>

\* The key of the lookup maps of compare_items.
ItemKey(item) == << item.name, KindDebug(item.kind) >>


(***************************************************************************)
(* comparator.rs                                                           *)
(***************************************************************************)
\* HashMap::new
EmptyMap == [k \in {} |-> None]

\* A map whose insert keeps the value a key already has.
MapInsertKeepFirst(map, key, value) ==
    [k \in (DOMAIN map) \cup {key} |-> IF k \in DOMAIN map THEN map[k] ELSE value]

\* HashMap::insert: a later insert replaces the value of an equal key.
MapInsert(map, key, value) ==
    [k \in (DOMAIN map) \cup {key} |-> IF k = key THEN value ELSE map[k]]

RECURSIVE BuildMap(_)
\* for item in &items { map.insert(key, item); }
BuildMap(items) ==
    IF items = << >> THEN EmptyMap
    ELSE LET last == items[Len(items)]
         IN  MapInsert(BuildMap(SubSeq(items, 1, Len(items) - 1)),
                       ItemKey(last), last)

\* ComparisonResult, with its four lists empty.
EmptyResult ==
    [missing_in_spec |-> << >>, missing_in_code |-> << >>,
     signature_mismatches |-> << >>, attribute_mismatches |-> << >>]

has_errors(r) ==
    \/ r.missing_in_spec # << >>
    \/ r.missing_in_code # << >>
    \/ r.signature_mismatches # << >>
    \/ r.attribute_mismatches # << >>

\* The first index (from 0) at which the zipped characters differ, if any.
ZipPosition(s1, s2) ==
    LET n == Min(Len(s1), Len(s2))
        diff == {i \in 1..n : s1[i] # s2[i]}
    IN  IF diff = {} THEN None
        ELSE Some((CHOOSE i \in diff : \A j \in diff : i <= j) - 1)

find_first_diff(s1, s2) ==
    LET pos == ZipPosition(s1, s2)
    IN  IF pos.some THEN pos
        ELSE IF ByteLen(s1) # ByteLen(s2)
             THEN Some(Min(ByteLen(s1), ByteLen(s2)))
             ELSE None

\* The closure of the filter of normalize_attributes: whether the attribute
\* is ignored.
IsIgnored(a, ignored_attributes) ==
    \E n \in 1..Len(ignored_attributes) :
        LET ignored == ignored_attributes[n]
        IN  \/ Contains(a, ignored)
            \/ StartsWith(a, << "#", "[" >> \o ignored \o << "(" >>)
            \/ StartsWith(a, << "#", "[" >> \o ignored)

RECURSIVE FilterTrim(_, _)
\* attrs.iter().filter(..).map(|a| a.trim().to_string()).collect()
FilterTrim(attrs, ignored_attributes) ==
    IF attrs = << >> THEN << >>
    ELSE LET rest == FilterTrim(Tail(attrs), ignored_attributes)
         IN  IF IsIgnored(Head(attrs), ignored_attributes)
             THEN rest
             ELSE << Trim(Head(attrs)) >> \o rest

\* A mutant of normalize_attributes: the list is not sorted.
normalize_attributes_unsorted(attrs, ignored_attributes) ==
    FilterTrim(attrs, ignored_attributes)

normalize_attributes(attrs, ignored_attributes) ==
    SortStrings(FilterTrim(attrs, ignored_attributes))

\* A mutant of SignatureDiffers: the display strings are compared.
SignatureDiffersByText(code_item, spec_item) ==
    code_item.signature # spec_item.signature

\* if code_tokens != spec_tokens
SignatureDiffers(code_item, spec_item) ==
    LET code_tokens == TokensToString(code_item.tokens)
        spec_tokens == TokensToString(spec_item.tokens)
    IN  code_tokens # spec_tokens

\* if code_attrs != spec_attrs
AttributesDiffer(code_item, spec_item, ignored_attributes) ==
    LET code_attrs == normalize_attributes(code_item.attributes, ignored_attributes)
        spec_attrs == normalize_attributes(spec_item.attributes, ignored_attributes)
    IN  code_attrs # spec_attrs

\* The branch of the loop over the code items for a key the spec has.
CheckMatched(acc, code_item, spec_item, ignored_attributes) ==
    LET acc1 ==
            IF SignatureDiffers(code_item, spec_item)
            THEN [acc EXCEPT !.signature_mismatches =
                    Append(@, [code_item |-> code_item,
                               spec_item |-> spec_item,
                               first_diff_pos |->
                                   find_first_diff(code_item.signature,
                                                   spec_item.signature)])]
            ELSE acc
    IN  IF AttributesDiffer(code_item, spec_item, ignored_attributes)
        THEN [acc1 EXCEPT !.attribute_mismatches =
                Append(@, [code_item |-> code_item, spec_item |-> spec_item])]
        ELSE acc1

\* A mutant of CheckCodeItem: an item is reported missing once per key.
CheckCodeItemOncePerKey(acc, code_item, spec_map, ignored_attributes) ==
    LET key == ItemKey(code_item)
    IN  IF key \in DOMAIN spec_map
        THEN CheckMatched(acc, code_item, spec_map[key], ignored_attributes)
        ELSE IF \E i \in DOMAIN acc.missing_in_spec :
                    ItemKey(acc.missing_in_spec[i]) = key
             THEN acc
             ELSE [acc EXCEPT !.missing_in_spec = Append(@, code_item)]

\* The body of the loop over the code items.
CheckCodeItem(acc, code_item, spec_map, ignored_attributes) ==
    LET key == ItemKey(code_item)
    IN  IF key \in DOMAIN spec_map
        THEN CheckMatched(acc, code_item, spec_map[key], ignored_attributes)
        ELSE [acc EXCEPT !.missing_in_spec = Append(@, code_item)]

\* A loop body that reports every spec item as missing in the code.
CheckSpecItemAlways(acc, spec_item, code_map) ==
    [acc EXCEPT !.missing_in_code = Append(@, spec_item)]

\* The body of the loop over the spec items.
CheckSpecItem(acc, spec_item, code_map) ==
    IF ItemKey(spec_item) \notin DOMAIN code_map
    THEN [acc EXCEPT !.missing_in_code = Append(@, spec_item)]
    ELSE acc

RECURSIVE CodeLoop(_, _, _, _)
\* for code_item in &code_items { .. }
CodeLoop(acc, items, spec_map, ignored_attributes) ==
    IF items = << >> THEN acc
    ELSE CodeLoop(CheckCodeItem(acc, Head(items), spec_map, ignored_attributes),
                  Tail(items), spec_map, ignored_attributes)

RECURSIVE SpecLoop(_, _, _)
\* for spec_item in &spec_items { .. }
SpecLoop(acc, items, code_map) ==
    IF items = << >> THEN acc
    ELSE SpecLoop(CheckSpecItem(acc, Head(items), code_map), Tail(items), code_map)

\* A mutant of compare_items: the code items are looked up in the code map.
compare_items_own_map(code, spec, ignored_attributes) ==
    LET code_map == BuildMap(code)
    IN  SpecLoop(CodeLoop(EmptyResult, code, code_map, ignored_attributes),
                 spec, code_map)

compare_items(code, spec, ignored_attributes) ==
    LET code_map == BuildMap(code)
        spec_map == BuildMap(spec)
    IN  SpecLoop(CodeLoop(EmptyResult, code, spec_map, ignored_attributes),
                 spec, code_map)

(***************************************************************************)
(* markdown_parser.rs                                                      *)
(***************************************************************************)
\* The events of pulldown_cmark the loop of extract_rust_blocks tells apart.
StartFencedEvent(lang) == [type |-> "StartFenced", lang |-> lang, text |-> << >>]
EndFencedEvent(lang) == [type |-> "EndFenced", lang |-> lang, text |-> << >>]
TextEvent(text) == [type |-> "Text", lang |-> "", text |-> text]
OtherEvent == [type |-> "Other", lang |-> "", text |-> << >>]

\* The locals of extract_rust_blocks before the loop.
ExtractStart ==
    [rust_blocks |-> << >>, in_rust_block |-> FALSE, current_block |-> << >>]

\* A mutant of OnStartFenced: the accumulator is not cleared.
OnStartFencedNoClear(st, lang) ==
    IF lang = "rust" THEN [st EXCEPT !.in_rust_block = TRUE] ELSE st

\* Event::Start(Tag::CodeBlock(CodeBlockKind::Fenced(lang))) => ..
OnStartFenced(st, lang) ==
    IF lang = "rust"
    THEN [st EXCEPT !.in_rust_block = TRUE, !.current_block = << >>]
    ELSE st

\* Event::End(Tag::CodeBlock(CodeBlockKind::Fenced(lang))) => ..
OnEndFenced(st, lang) ==
    IF lang = "rust" /\ st.in_rust_block
    THEN [st EXCEPT !.rust_blocks = Append(@, st.current_block),
                    !.in_rust_block = FALSE]
    ELSE st

\* Event::Text(text) => ..
OnText(st, text) ==
    IF st.in_rust_block
    THEN [st EXCEPT !.current_block = @ \o text]
    ELSE st

\* The body of the loop over the events.
OnEvent(st, event) ==
    CASE event.type = "StartFenced" -> OnStartFenced(st, event.lang)
      [] event.type = "EndFenced" -> OnEndFenced(st, event.lang)
      [] event.type = "Text" -> OnText(st, event.text)
      [] OTHER -> st

RECURSIVE EventLoop(_, _)
\* for event in parser { .. }
EventLoop(st, events) ==
    IF events = << >> THEN st
    ELSE EventLoop(OnEvent(st, Head(events)), Tail(events))

\* extract_rust_blocks, on the events Parser::new(markdown) yields.
extract_rust_blocks(events) == EventLoop(ExtractStart, events).rust_blocks

(***************************************************************************)
(* rust_parser.rs: the syntax tree                                         *)
(*                                                                         *)
(* A source text is a sequence of chunks, one a line: a chunk is the       *)
(* syntax tree of one item, or GarbageChunk, text that is no item.         *)
(***************************************************************************)
\* syn::Visibility
VisPublic == "Public"
VisRestricted == "Restricted"
VisInherited == "Inherited"

\* A field of a struct or of a variant, a parameter of a function.
Field(attrs, ident) == [attrs |-> attrs, ident |-> ident]
\* syn::Variant
Variant(attrs, ident, fields) == [attrs |-> attrs, ident |-> ident, fields |-> fields]

\* syn::ItemStruct
ItemStruct(attrs, vis, ident, fields) ==
    [node |-> "struct", attrs |-> attrs, vis |-> vis, ident |-> ident,
     fields |-> fields]
\* syn::ItemEnum
ItemEnum(attrs, vis, ident, variants) ==
    [node |-> "enum", attrs |-> attrs, vis |-> vis, ident |-> ident,
     variants |-> variants]
\* syn::ItemTrait
ItemTrait(attrs, vis, ident, items) ==
    [node |-> "trait", attrs |-> attrs, vis |-> vis, ident |-> ident,
     items |-> items]
\* syn::ItemFn; the body is the list of the items declared in its block.
ItemFn(attrs, vis, ident, inputs, body) ==
    [node |-> "fn", attrs |-> attrs, vis |-> vis, ident |-> ident,
     inputs |-> inputs, body |-> body]
\* syn::ItemImpl, with its methods.
ItemImpl(items) == [node |-> "impl", items |-> items]
\* syn::ItemMod with inline content.
ItemMod(vis, ident, items) ==
    [node |-> "mod", vis |-> vis, ident |-> ident, items |-> items]
\* Any other item: a use declaration.
ItemUse == [node |-> "use"]
\* Text that is not an item.
GarbageChunk == [node |-> "garbage"]

\* syn::TraitItemFn: a method signature, default |-> TRUE with a default body
\* that holds the items of body.
TraitItemFn(attrs, ident, inputs, default, body) ==
    [node |-> "fn", attrs |-> attrs, ident |-> ident, inputs |-> inputs,
     default |-> default, body |-> body]
\* syn::TraitItemConst, TraitItemType, TraitItemMacro
TraitItemConst(attrs, ident) == [node |-> "const", attrs |-> attrs, ident |-> ident]
TraitItemType(attrs, ident) == [node |-> "type", attrs |-> attrs, ident |-> ident]
TraitItemMacro(attrs, ident) == [node |-> "macro", attrs |-> attrs, ident |-> ident]
\* syn::ImplItemFn
ImplItemFn(ident, body) == [ident |-> ident, body |-> body]

(***************************************************************************)
(* quote::ToTokens: the tokens of a node.  An attribute is the sequence of *)
(* its tokens.                                                             *)
(***************************************************************************)
RECURSIVE Flatten(_)
\* The concatenation of a sequence of token sequences.
Flatten(seqs) == IF seqs = << >> THEN << >> ELSE Head(seqs) \o Flatten(Tail(seqs))

VisTokens(vis) ==
    CASE vis = VisPublic -> << "p" >>
      [] vis = VisRestricted -> << "p", "(", "c", ")" >>
      [] OTHER -> << >>

FieldTokens(f) == Flatten(f.attrs) \o << f.ident, "," >>

FieldsTokens(fields) == Flatten([i \in DOMAIN fields |-> FieldTokens(fields[i])])

VariantTokens(v) ==
    Flatten(v.attrs) \o << v.ident >>
        \o (IF v.fields = << >> THEN << >>
            ELSE << "(" >> \o FieldsTokens(v.fields) \o << ")" >>)
        \o << "," >>

RECURSIVE ItemTokens(_)
RECURSIVE ItemsTokens(_)
\* The tokens of a sequence of items.
ItemsTokens(items) ==
    IF items = << >> THEN << >>
    ELSE ItemTokens(Head(items)) \o ItemsTokens(Tail(items))

TraitItemTokens(t) ==
    CASE t.node = "fn" ->
            Flatten(t.attrs) \o << "f", t.ident, "(" >> \o FieldsTokens(t.inputs)
                \o << ")" >>
                \o (IF t.default
                    THEN << "{" >> \o ItemsTokens(t.body) \o << "}" >>
                    ELSE << ";" >>)
      [] t.node = "const" -> Flatten(t.attrs) \o << "c", t.ident, ";" >>
      [] t.node = "type" -> Flatten(t.attrs) \o << "y", t.ident, ";" >>
      [] OTHER -> Flatten(t.attrs) \o << t.ident, "(", ")", ";" >>

ImplItemTokens(m) ==
    << "f", m.ident, "(", ")", "{" >> \o ItemsTokens(m.body) \o << "}" >>

\* The tokens of an item.
ItemTokens(n) ==
    CASE n.node = "struct" ->
            Flatten(n.attrs) \o VisTokens(n.vis) \o << "s", n.ident >>
                \o (IF n.fields = << >> THEN << ";" >>
                    ELSE << "{" >> \o FieldsTokens(n.fields) \o << "}" >>)
      [] n.node = "enum" ->
            Flatten(n.attrs) \o VisTokens(n.vis) \o << "e", n.ident, "{" >>
                \o Flatten([i \in DOMAIN n.variants |-> VariantTokens(n.variants[i])])
                \o << "}" >>
      [] n.node = "trait" ->
            Flatten(n.attrs) \o VisTokens(n.vis) \o << "t", n.ident, "{" >>
                \o Flatten([i \in DOMAIN n.items |-> TraitItemTokens(n.items[i])])
                \o << "}" >>
      [] n.node = "fn" ->
            Flatten(n.attrs) \o VisTokens(n.vis) \o << "f", n.ident, "(" >>
                \o FieldsTokens(n.inputs) \o << ")", "{" >>
                \o ItemsTokens(n.body) \o << "}" >>
      [] n.node = "impl" ->
            << "i", "{" >>
                \o Flatten([i \in DOMAIN n.items |-> ImplItemTokens(n.items[i])])
                \o << "}" >>
      [] n.node = "mod" ->
            VisTokens(n.vis) \o << "m", n.ident, "{" >> \o ItemsTokens(n.items)
                \o << "}" >>
      [] OTHER -> << "u", ";" >>

(***************************************************************************)
(* rust_parser.rs: StripAttrs                                              *)
(***************************************************************************)
\* field.attrs.clear() for every field
ClearFieldAttrs(fields) ==
    [i \in DOMAIN fields |-> [fields[i] EXCEPT !.attrs = << >>]]

\* impl StripAttrs for ItemStruct
strip_attrs_struct(n) ==
    [n EXCEPT !.attrs = << >>, !.fields = ClearFieldAttrs(n.fields)]

\* impl StripAttrs for syn::Variant
strip_attrs_variant(v) ==
    [v EXCEPT !.attrs = << >>, !.fields = ClearFieldAttrs(v.fields)]

\* impl StripAttrs for ItemEnum
strip_attrs_enum(n) ==
    [n EXCEPT !.attrs = << >>,
              !.variants = [i \in DOMAIN n.variants |->
                               strip_attrs_variant(n.variants[i])]]

\* impl StripAttrs for ItemTrait: the attributes of the trait and of each of
\* its items.
strip_attrs_trait(n) ==
    [n EXCEPT !.attrs = << >>,
              !.items = [i \in DOMAIN n.items |->
                            [n.items[i] EXCEPT !.attrs = << >>]]]

\* impl StripAttrs for ItemFn
strip_attrs_fn(n) == [n EXCEPT !.attrs = << >>]

\* impl StripAttrs for TraitItemFn
strip_attrs_trait_fn(m) == [m EXCEPT !.attrs = << >>]

(***************************************************************************)
(* rust_parser.rs: ItemCollector and its visitor                           *)
(***************************************************************************)
\* ItemCollector::new
ItemCollector(check_private, source_text) ==
    [items |-> << >>, current_trait |-> None, check_private |-> check_private,
     source_text |-> source_text]

\* A mutant of should_include: every visibility qualifier counts as public.
should_include_qualified(c, vis) == c.check_private \/ vis # VisInherited

should_include(c, vis) == c.check_private \/ vis = VisPublic

\* The line of the first occurrence of the identifier in the source text
\* (line 1 when there is none): chunk i is line i of the text.
calculate_line_number(c, ident_name) ==
    LET hits == {i \in DOMAIN c.source_text :
                    /\ c.source_text[i].node # "garbage"
                    /\ ident_name \in Range(ItemTokens(c.source_text[i]))}
    IN  IF hits = {} THEN 1
        ELSE CHOOSE i \in hits : \A j \in hits : i <= j

\* node.attrs.iter().map(|attr| quote::quote!(#attr).to_string()).collect()
AttributeStrings(attrs) == [i \in DOMAIN attrs |-> TokensToString(attrs[i])]

\* The record pushed for a node: its signature and tokens are those of the
\* clone without attributes.
Collected(c, ident, kind, stripped_tokens, attrs) ==
    RustItem(ident, kind, TokensToString(stripped_tokens), stripped_tokens,
             AttributeStrings(attrs), calculate_line_number(c, ident))

Push(c, item) == [c EXCEPT !.items = Append(@, item)]

visit_item_struct(c, node) ==
    IF should_include(c, node.vis)
    THEN Push(c, Collected(c, node.ident, KindStruct,
                           ItemTokens(strip_attrs_struct(node)), node.attrs))
    ELSE c

visit_item_enum(c, node) ==
    IF should_include(c, node.vis)
    THEN Push(c, Collected(c, node.ident, KindEnum,
                           ItemTokens(strip_attrs_enum(node)), node.attrs))
    ELSE c

\* A mutant of IsTraitItemFn: associated constants are taken as methods too.
IsTraitItemFnOrConst(item) == item.node \in {"fn", "const"}

\* if let TraitItem::Fn(method) = item
IsTraitItemFn(item) == item.node = "fn"

RECURSIVE TraitItemsLoop(_, _, _)
\* for item in &node.items { if let TraitItem::Fn(method) = item { .. } }
TraitItemsLoop(c, items, trait_name) ==
    IF items = << >> THEN c
    ELSE LET method == Head(items)
             pushed ==
                 IF IsTraitItemFn(method)
                 THEN Push(c, Collected(c, method.ident,
                                        KindTraitMethod(trait_name),
                                        TraitItemTokens(
                                            strip_attrs_trait_fn(method)),
                                        method.attrs))
                 ELSE c
         IN  TraitItemsLoop(pushed, Tail(items), trait_name)

visit_item_trait(c, node) ==
    IF should_include(c, node.vis)
    THEN LET trait_name == node.ident
             c1 == Push(c, Collected(c, trait_name, KindTrait,
                                     ItemTokens(strip_attrs_trait(node)),
                                     node.attrs))
             old_trait == c1.current_trait
             c2 == [c1 EXCEPT !.current_trait = Some(trait_name)]
             c3 == TraitItemsLoop(c2, node.items, trait_name)
         IN  [c3 EXCEPT !.current_trait = old_trait]
    ELSE c

visit_item_fn(c, node) ==
    IF ~ c.current_trait.some /\ should_include(c, node.vis)
    THEN Push(c, Collected(c, node.ident, KindFunction,
                           ItemTokens(strip_attrs_fn(node)), node.attrs))
    ELSE c

RECURSIVE visit_item(_, _)
RECURSIVE visit_items(_, _)
RECURSIVE visit_impl_items(_, _)
\* syn::visit::visit_item_impl, not overridden: every method of the impl is
\* visited, and with it the items declared in its block.
visit_impl_items(c, methods) ==
    IF methods = << >> THEN c
    ELSE visit_impl_items(visit_items(c, Head(methods).body), Tail(methods))

\* syn::visit::visit_item: the overridden methods for a struct, an enum, a
\* trait and a function, the default walk for an impl and a module.
visit_item(c, node) ==
    CASE node.node = "struct" -> visit_item_struct(c, node)
      [] node.node = "enum" -> visit_item_enum(c, node)
      [] node.node = "trait" -> visit_item_trait(c, node)
      [] node.node = "fn" -> visit_item_fn(c, node)
      [] node.node = "impl" -> visit_impl_items(c, node.items)
      [] node.node = "mod" -> visit_items(c, node.items)
      [] OTHER -> c

\* syn::visit::visit_file: the items of the file in order.
visit_items(c, items) ==
    IF items = << >> THEN c
    ELSE visit_items(visit_item(c, Head(items)), Tail(items))

\* syn::parse_file(content)?: an error when some chunk is no item.
ParsesAsFile(content) == \A i \in DOMAIN content : content[i].node # "garbage"

parse_rust_file(content, check_private) ==
    IF ParsesAsFile(content)
    THEN [ok |-> TRUE,
          items |-> visit_items(ItemCollector(check_private, content), content).items]
    ELSE [ok |-> FALSE, items |-> << >>]

(***************************************************************************)
(* The declarations and ignore lists compare_items is called with.         *)
(***************************************************************************)
AttrX == << "#", "[", "x", "]" >>
AttrC == << "#", "[", "c", "]" >>
AttrDoc == << "#", "[", "d", "]" >>

TokStructA == << "s", "A", "{", "}" >>
TokUnitA == << "s", "A", ";" >>
TokMethodG == << "f", "g", "(", ")", ";" >>

\* struct A {} as the extractor renders it.
ItemA ==
    RustItem("A", KindStruct, TokensToString(TokStructA), TokStructA,
             << AttrX, AttrC >>, 1)
\* The same tokens written with other spacing; the same attributes in another
\* order, one with a leading space, and a doc attribute.
ItemACompact ==
    RustItem("A", KindStruct, << "s", " ", "A", "{", "}" >>, TokStructA,
             << AttrC, << " " >> \o AttrX, AttrDoc >>, 1)
\* struct A; with one attribute less.
ItemAUnit ==
    RustItem("A", KindStruct, TokensToString(TokUnitA), TokUnitA,
             << AttrX, AttrDoc >>, 2)
\* The method g of the trait T and of the trait U.
ItemMethodT ==
    RustItem("g", KindTraitMethod("T"), TokensToString(TokMethodG), TokMethodG,
             << >>, 2)
ItemMethodU ==
    RustItem("g", KindTraitMethod("U"), TokensToString(TokMethodG), TokMethodG,
             << AttrX >>, 2)

ItemPool ==
    {ItemA, ItemACompact, ItemAUnit, ItemMethodT, ItemMethodU}

IgnoreLists == { << >>, << << "d" >> >> }

\* The sequences over S of length at most n.
SeqsUpTo(S, n) == UNION {[1..k -> S] : k \in 0..n}

(***************************************************************************)
(* State                                                                   *)
(***************************************************************************)
VARIABLES
    code_items,          \* compare_items: the first argument
    spec_items,          \* compare_items: the second argument
    ignored_attributes,  \* compare_items: the third argument
    result,              \* the ComparisonResult returned
    cmp_pc,              \* "call" before compare_items runs, "done" after
    reordered,           \* whether the lists were reordered and compared again
    md_seen,             \* extract_rust_blocks: the events the parser has yielded
    md_open,             \* the tag of the fence the parser is in, "" in none
    rust_blocks,         \* extract_rust_blocks: the local rust_blocks
    in_rust_block,       \* extract_rust_blocks: the local in_rust_block
    current_block,       \* extract_rust_blocks: the local current_block
    md_pc,               \* "idle", "loop" in the loop over the events, "done"
    content,             \* parse_rust_file: the source text
    check_private,       \* parse_rust_file: whether private items are collected
    parsed,              \* the Result parse_rust_file returned
    parse_pc,            \* "idle", "call" before parse_rust_file runs, "done"
    config,              \* main: check_private and ignored_attributes
    mappings,            \* main: the file mappings found
    total_files,         \* main: the local total_files
    files_with_errors,   \* main: the local files_with_errors
    next_file,           \* main: the index of the mapping the loop takes next
    log,                 \* the lines the reporter has written
    invoked,             \* the calls of the extractors and the comparator so far
    main_pc              \* "idle", "loop", "failed" (main returned an error),
                         \* "exit_ok", "exit_failure"

cmp_vars ==
    << code_items, spec_items, ignored_attributes, result, cmp_pc, reordered >>

md_vars ==
    << md_seen, md_open, rust_blocks, in_rust_block, current_block, md_pc >>

parse_vars == << content, check_private, parsed, parse_pc >>

main_vars ==
    << config, mappings, total_files, files_with_errors, next_file, log, invoked,
       main_pc >>

vars == << cmp_vars, md_vars, parse_vars, main_vars >>

\* main is not running.
MainIdle ==
    /\ config = [check_private |-> FALSE, ignored_attributes |-> << >>]
    /\ mappings = << >>
    /\ total_files = 0
    /\ files_with_errors = 0
    /\ next_file = 1
    /\ log = << >>
    /\ invoked = << >>
    /\ main_pc = "idle"

\* The comparator is not running.
CmpIdle ==
    /\ code_items = << >>
    /\ spec_items = << >>
    /\ ignored_attributes = << >>
    /\ result = EmptyResult
    /\ cmp_pc = "idle"
    /\ reordered = FALSE

\* The declaration extractor is not running.
ParseIdle ==
    /\ content = << >>
    /\ check_private = FALSE
    /\ parsed = [ok |-> FALSE, items |-> << >>]
    /\ parse_pc = "idle"

\* The sample extractor is not running.
MdIdle ==
    /\ md_seen = << >>
    /\ md_open = ""
    /\ rust_blocks = << >>
    /\ in_rust_block = FALSE
    /\ current_block = << >>
    /\ md_pc = "idle"

(***************************************************************************)
(* The comparator called on two declaration lists.                         *)
(***************************************************************************)
CmpInit ==
    /\ code_items \in SeqsUpTo(ItemPool, MaxItems)
    /\ spec_items \in SeqsUpTo(ItemPool, MaxItems - Len(code_items))
    /\ ignored_attributes \in IgnoreLists
    /\ result = EmptyResult
    /\ cmp_pc = "call"
    /\ reordered = FALSE

\* let result = compare_items(code_items, spec_items, &ignored_attributes);
Compare ==
    /\ cmp_pc = "call"
    /\ result' = compare_items(code_items, spec_items, ignored_attributes)
    /\ cmp_pc' = "done"
    /\ UNCHANGED << code_items, spec_items, ignored_attributes, reordered >>
    /\ UNCHANGED << md_vars, parse_vars, main_vars >>

\* The list with its entries i and i + 1 exchanged.
SwapAt(s, i) ==
    [k \in 1..Len(s) |-> IF k = i THEN s[i + 1] ELSE IF k = i + 1 THEN s[i] ELSE s[k]]

\* The comparison is run again on the code declarations in another order.
ReorderCode ==
    /\ cmp_pc = "done"
    /\ \E i \in 1..(Len(code_items) - 1) :
          /\ code_items' = SwapAt(code_items, i)
          /\ result' = compare_items(code_items', spec_items, ignored_attributes)
    /\ reordered' = TRUE
    /\ UNCHANGED << spec_items, ignored_attributes, cmp_pc >>
    /\ UNCHANGED << md_vars, parse_vars, main_vars >>

\* The comparison is run again on the spec declarations in another order.
ReorderSpec ==
    /\ cmp_pc = "done"
    /\ \E i \in 1..(Len(spec_items) - 1) :
          /\ spec_items' = SwapAt(spec_items, i)
          /\ result' = compare_items(code_items, spec_items', ignored_attributes)
    /\ reordered' = TRUE
    /\ UNCHANGED << code_items, ignored_attributes, cmp_pc >>
    /\ UNCHANGED << md_vars, parse_vars, main_vars >>

Init == CmpInit /\ MdIdle /\ ParseIdle /\ MainIdle

Next == Compare \/ ReorderCode \/ ReorderSpec

Spec == Init /\ [][Next]_vars

(***************************************************************************)
(* compare_items on one pair of items of one key whose tokens differ and    *)
(* whose signature strings are any two strings: find_first_diff.           *)
(***************************************************************************)
\* The characters of the signature strings: one of them takes two bytes.
SigChars == {"A", ";", "W"}

Signatures == SeqsUpTo(SigChars, MaxSigLen)

SignatureInit ==
    /\ \E s1, s2 \in Signatures :
          /\ code_items = << RustItem("A", KindStruct, s1, TokStructA, << >>, 1) >>
          /\ spec_items = << RustItem("A", KindStruct, s2, TokUnitA, << >>, 1) >>
    /\ ignored_attributes = << >>
    /\ result = EmptyResult
    /\ cmp_pc = "call"
    /\ reordered = FALSE

InitSignature == SignatureInit /\ MdIdle /\ ParseIdle /\ MainIdle

NextSignature == Compare

SpecSignature == InitSignature /\ [][NextSignature]_vars

(***************************************************************************)
(* The sample extractor run on the events of a document.  A fenced code    *)
(* block holds text events only, and the parser ends every block it        *)
(* starts; the model also lets the events end inside a fence.              *)
(***************************************************************************)
FenceTags == {"rust", "Rust", "python"}
Texts == { << "A" >>, << "B" >> }

MdLocals ==
    [rust_blocks |-> rust_blocks, in_rust_block |-> in_rust_block,
     current_block |-> current_block]

\* The loop body has run on the event.
MdStep(event) ==
    LET st == OnEvent(MdLocals, event)
    IN  /\ md_seen' = Append(md_seen, event)
        /\ rust_blocks' = st.rust_blocks
        /\ in_rust_block' = st.in_rust_block
        /\ current_block' = st.current_block
        /\ md_pc' = md_pc
        /\ UNCHANGED << cmp_vars, parse_vars, main_vars >>

MdInit ==
    /\ md_seen = << >>
    /\ md_open = ""
    /\ rust_blocks = ExtractStart.rust_blocks
    /\ in_rust_block = ExtractStart.in_rust_block
    /\ current_block = ExtractStart.current_block
    /\ md_pc = "loop"

\* The parser yields the start of a fenced code block.
StartFenced ==
    /\ md_pc = "loop"
    /\ Len(md_seen) < MaxEvents
    /\ md_open = ""
    /\ \E lang \in FenceTags :
          /\ MdStep(StartFencedEvent(lang))
          /\ md_open' = lang

\* The parser yields the end of the fenced code block it is in.
EndFenced ==
    /\ md_pc = "loop"
    /\ Len(md_seen) < MaxEvents
    /\ md_open # ""
    /\ MdStep(EndFencedEvent(md_open))
    /\ md_open' = ""

\* The parser yields a text: a line of a code block, or text of a paragraph.
Text ==
    /\ md_pc = "loop"
    /\ Len(md_seen) < MaxEvents
    /\ \E text \in Texts : MdStep(TextEvent(text))
    /\ UNCHANGED md_open

\* The parser yields another event: a heading, a paragraph, a list.
Other ==
    /\ md_pc = "loop"
    /\ Len(md_seen) < MaxEvents
    /\ md_open = ""
    /\ MdStep(OtherEvent)
    /\ UNCHANGED md_open

\* The events are exhausted: Ok(rust_blocks).
ReturnBlocks ==
    /\ md_pc = "loop"
    /\ md_pc' = "done"
    /\ UNCHANGED << md_seen, md_open, rust_blocks, in_rust_block, current_block >>
    /\ UNCHANGED << cmp_vars, parse_vars, main_vars >>

InitMarkdown == MdInit /\ CmpIdle /\ ParseIdle /\ MainIdle

NextMarkdown == StartFenced \/ EndFenced \/ Text \/ Other \/ ReturnBlocks

SpecMarkdown == InitMarkdown /\ [][NextMarkdown]_vars

(***************************************************************************)
(* The declaration extractor called on a source text.                      *)
(***************************************************************************)
\* pub struct A { x } with attributes on the struct and on its field.
PubStructA ==
    ItemStruct(<< AttrX >>, VisPublic, "A", << Field(<< AttrDoc >>, "x") >>)
\* struct B;
PrivStructB == ItemStruct(<< >>, VisInherited, "B", << >>)
\* pub(crate) enum A { U(x) }
CrateEnumA ==
    ItemEnum(<< >>, VisRestricted, "A",
             << Variant(<< AttrX >>, "U", << Field(<< AttrC >>, "x") >>) >>)
\* pub trait T with a constant, the method g, a type, the method h with a
\* default body that declares a struct, and a macro.
PubTraitT ==
    ItemTrait(<< AttrDoc >>, VisPublic, "T",
              << TraitItemConst(<< >>, "B"),
                 TraitItemFn(<< AttrX >>, "g", << Field(<< AttrC >>, "x") >>,
                             FALSE, << >>),
                 TraitItemType(<< >>, "U"),
                 TraitItemFn(<< >>, "h", << >>, TRUE, << PubStructA >>),
                 TraitItemMacro(<< >>, "A") >>)
\* trait U { fn g(); }
PrivTraitU ==
    ItemTrait(<< >>, VisInherited, "U",
              << TraitItemFn(<< >>, "g", << >>, FALSE, << >>) >>)
\* pub trait B { const A; }
PubTraitNoMethod ==
    ItemTrait(<< >>, VisPublic, "B", << TraitItemConst(<< AttrX >>, "A") >>)
\* pub fn g(x) { struct B; }
PubFnG ==
    ItemFn(<< AttrX >>, VisPublic, "g", << Field(<< AttrC >>, "x") >>,
           << PrivStructB >>)
\* fn h() {}
PrivFnH == ItemFn(<< >>, VisInherited, "h", << >>, << >>)
\* impl { fn h() { pub struct A { x } } }
ImplWithStruct == ItemImpl(<< ImplItemFn("h", << PubStructA >>) >>)
\* mod U { struct B; pub fn g(x) { struct B; } }
ModWithItems == ItemMod(VisInherited, "U", << PrivStructB, PubFnG >>)

ChunkPool ==
    {PubStructA, PrivStructB, CrateEnumA, PubTraitT, PrivTraitU,
     PubTraitNoMethod, PubFnG, PrivFnH, ImplWithStruct, ModWithItems, ItemUse,
     GarbageChunk}

ParseInit ==
    /\ content \in SeqsUpTo(ChunkPool, MaxChunks)
    /\ check_private \in BOOLEAN
    /\ parsed = [ok |-> FALSE, items |-> << >>]
    /\ parse_pc = "call"

\* parse_rust_file(&content, check_private) returns Ok(items).
ParseOk ==
    /\ parse_pc = "call"
    /\ parse_rust_file(content, check_private).ok
    /\ parsed' = parse_rust_file(content, check_private)
    /\ parse_pc' = "done"
    /\ UNCHANGED << content, check_private, cmp_vars, md_vars, main_vars >>

\* parse_rust_file(&content, check_private) returns the error of syn::parse_file.
ParseErr ==
    /\ parse_pc = "call"
    /\ ~ parse_rust_file(content, check_private).ok
    /\ parsed' = parse_rust_file(content, check_private)
    /\ parse_pc' = "done"
    /\ UNCHANGED << content, check_private, cmp_vars, md_vars, main_vars >>

InitParser == ParseInit /\ CmpIdle /\ MdIdle /\ MainIdle

NextParser == ParseOk \/ ParseErr

SpecParser == InitParser /\ [][NextParser]_vars

(***************************************************************************)
(* main: the loop over the file mappings.                                  *)
(***************************************************************************)
\* A file: whether fs::read_to_string succeeds, and what it holds.
File(readable, holds) == [readable |-> readable, holds |-> holds]

\* FileMapping
FileMapping(rust_file, spec_file) == [rust_file |-> rust_file, spec_file |-> spec_file]

\* Source files: one public struct; text that does not parse; unreadable.
RsStruct == File(TRUE, << PubStructA >>)
RsGarbage == File(TRUE, << GarbageChunk >>)
RsUnreadable == File(FALSE, << >>)

\* Spec files, by the events of their markdown: one rust sample with the
\* struct; a sample that does not parse between two that do; no fence;
\* unreadable.
MdStruct ==
    File(TRUE, << OtherEvent, StartFencedEvent("rust"),
                  TextEvent(<< PubStructA >>), EndFencedEvent("rust") >>)
MdBrokenSample ==
    File(TRUE, << StartFencedEvent("rust"), TextEvent(<< PubStructA >>),
                  EndFencedEvent("rust"),
                  StartFencedEvent("rust"), TextEvent(<< GarbageChunk >>),
                  EndFencedEvent("rust"),
                  StartFencedEvent("rust"), TextEvent(<< PrivStructB >>),
                  TextEvent(<< PubFnG >>), EndFencedEvent("rust") >>)
MdNoFence == File(TRUE, << OtherEvent >>)
MdUnreadable == File(FALSE, << >>)

MappingPool ==
    {FileMapping(r, sf) :
        r \in {RsStruct, RsGarbage, RsUnreadable},
        sf \in {None, Some(MdStruct), Some(MdBrokenSample), Some(MdNoFence),
                Some(MdUnreadable)}}

\* config.get_ignored_attributes() with no configuration: vec!["doc"].
DefaultIgnored == << << "d" >> >>

RECURSIVE SpecItemsUntilFailure(_, _)
\* A loop that gives up at the first sample that does not parse.
SpecItemsUntilFailure(blocks, private) ==
    IF blocks = << >> THEN << >>
    ELSE LET r == parse_rust_file(Head(blocks), private)
         IN  IF r.ok THEN r.items \o SpecItemsUntilFailure(Tail(blocks), private)
             ELSE << >>

RECURSIVE SpecItemsOf(_, _)
\* for block in rust_blocks { if let Ok(items) = parse_rust_file(..) { .. } }
SpecItemsOf(blocks, private) ==
    IF blocks = << >> THEN << >>
    ELSE LET r == parse_rust_file(Head(blocks), private)
         IN  (IF r.ok THEN r.items ELSE << >>) \o SpecItemsOf(Tail(blocks), private)

\* The calls of parse_rust_file on the samples of file k.
SampleCalls(blocks, k) ==
    [i \in DOMAIN blocks |-> [fn |-> "parse_rust_file", file |-> k]]

Current == mappings[next_file]

InLoop == main_pc = "loop" /\ next_file <= Len(mappings)

MainInit ==
    /\ config \in [check_private : BOOLEAN, ignored_attributes : {DefaultIgnored}]
    /\ mappings \in SeqsUpTo(MappingPool, MaxFiles)
    /\ total_files = Len(mappings)
    /\ files_with_errors = 0
    /\ next_file = 1
    /\ log = << >>
    /\ invoked = << >>
    /\ main_pc = "loop"

\* fs::read_to_string(&mapping.rust_file) fails: main returns the error.
ReadRustFails ==
    /\ InLoop
    /\ ~ Current.rust_file.readable
    /\ main_pc' = "failed"
    /\ UNCHANGED << config, mappings, total_files, files_with_errors, next_file,
                    log, invoked >>
    /\ UNCHANGED << cmp_vars, md_vars, parse_vars >>

\* parse_rust_file(&rust_content, check_private) fails: main returns the error.
ParseRustFails ==
    /\ InLoop
    /\ Current.rust_file.readable
    /\ ~ parse_rust_file(Current.rust_file.holds, config.check_private).ok
    /\ invoked' = Append(invoked, [fn |-> "parse_rust_file", file |-> next_file])
    /\ main_pc' = "failed"
    /\ UNCHANGED << config, mappings, total_files, files_with_errors, next_file, log >>
    /\ UNCHANGED << cmp_vars, md_vars, parse_vars >>

\* A missing spec that adds two to files_with_errors.
MissingSpecCountedTwice ==
    /\ InLoop
    /\ Current.rust_file.readable
    /\ parse_rust_file(Current.rust_file.holds, config.check_private).ok
    /\ ~ Current.spec_file.some
    /\ invoked' = Append(invoked, [fn |-> "parse_rust_file", file |-> next_file])
    /\ log' = Append(log, [kind |-> "missing_spec", file |-> next_file])
    /\ files_with_errors' = files_with_errors + 2
    /\ next_file' = next_file + 1
    /\ UNCHANGED << config, mappings, total_files, main_pc >>
    /\ UNCHANGED << cmp_vars, md_vars, parse_vars >>

\* The source parses and the mapping has no spec file: the file is reported
\* and counted, and the loop continues.
MissingSpec ==
    /\ InLoop
    /\ Current.rust_file.readable
    /\ parse_rust_file(Current.rust_file.holds, config.check_private).ok
    /\ ~ Current.spec_file.some
    /\ invoked' = Append(invoked, [fn |-> "parse_rust_file", file |-> next_file])
    /\ log' = Append(log, [kind |-> "missing_spec", file |-> next_file])
    /\ files_with_errors' = files_with_errors + 1
    /\ next_file' = next_file + 1
    /\ UNCHANGED << config, mappings, total_files, main_pc >>
    /\ UNCHANGED << cmp_vars, md_vars, parse_vars >>

\* fs::read_to_string(spec_file) fails: main returns the error.
ReadSpecFails ==
    /\ InLoop
    /\ Current.rust_file.readable
    /\ parse_rust_file(Current.rust_file.holds, config.check_private).ok
    /\ Current.spec_file.some
    /\ ~ Current.spec_file.val.readable
    /\ invoked' = Append(invoked, [fn |-> "parse_rust_file", file |-> next_file])
    /\ main_pc' = "failed"
    /\ UNCHANGED << config, mappings, total_files, files_with_errors, next_file, log >>
    /\ UNCHANGED << cmp_vars, md_vars, parse_vars >>

\* Both files are read: the samples are extracted and parsed, the lists are
\* compared, the file is counted if it has errors, the result is reported.
CompareFile ==
    /\ InLoop
    /\ Current.rust_file.readable
    /\ parse_rust_file(Current.rust_file.holds, config.check_private).ok
    /\ Current.spec_file.some
    /\ Current.spec_file.val.readable
    /\ LET code == parse_rust_file(Current.rust_file.holds, config.check_private).items
           blocks == extract_rust_blocks(Current.spec_file.val.holds)
           spec == SpecItemsOf(blocks, config.check_private)
           res == compare_items(code, spec, config.ignored_attributes)
       IN  /\ invoked' =
                invoked \o << [fn |-> "parse_rust_file", file |-> next_file],
                              [fn |-> "extract_rust_blocks", file |-> next_file] >>
                        \o SampleCalls(blocks, next_file)
                        \o << [fn |-> "compare_items", file |-> next_file,
                               code_items |-> code, spec_items |-> spec] >>
           /\ files_with_errors' =
                IF has_errors(res) THEN files_with_errors + 1 ELSE files_with_errors
           /\ log' = Append(log, [kind |-> "results", file |-> next_file,
                                  result |-> res])
    /\ next_file' = next_file + 1
    /\ UNCHANGED << config, mappings, total_files, main_pc >>
    /\ UNCHANGED << cmp_vars, md_vars, parse_vars >>

\* After the loop: the summary is written, and the process exits with a failure
\* code if files_with_errors > 0.
WriteSummary ==
    /\ main_pc = "loop"
    /\ next_file > Len(mappings)
    /\ log' = Append(log, [kind |-> "summary", total |-> total_files,
                           errors |-> files_with_errors,
                           passing |-> total_files - files_with_errors])
    /\ main_pc' = IF files_with_errors > 0 THEN "exit_failure" ELSE "exit_ok"
    /\ UNCHANGED << config, mappings, total_files, files_with_errors, next_file,
                    invoked >>
    /\ UNCHANGED << cmp_vars, md_vars, parse_vars >>

InitMain == MainInit /\ CmpIdle /\ MdIdle /\ ParseIdle

NextMain ==
    \/ ReadRustFails
    \/ ParseRustFails
    \/ MissingSpec
    \/ ReadSpecFails
    \/ CompareFile
    \/ WriteSummary

SpecMain == InitMain /\ [][NextMain]_vars

(***************************************************************************)
(* Properties of compare_items                                             *)
(***************************************************************************)
CmpDone == cmp_pc = "done"

\* The permutations of 1..n.
Perms(n) == {f \in [1..n -> 1..n] : \A i, j \in 1..n : f[i] = f[j] => i = j}

Permuted(s, f) == [i \in 1..Len(s) |-> s[f[i]]]

\* The multiset of the entries of a sequence.
BagOf(s) == [x \in Range(s) |-> Cardinality({i \in DOMAIN s : s[i] = x})]

\* The keys of the code items of a list of mismatch records.
MismatchKeys(list) == {ItemKey(list[i].code_item) : i \in DOMAIN list}

\* The code items of a list of mismatch records, in the order of the list.
MismatchCodeItems(list) == [i \in DOMAIN list |-> list[i].code_item]

HasKey(items, key) == \E i \in DOMAIN items : ItemKey(items[i]) = key

\* The entry of the list a lookup by key finds: the last one with the key.
Matched(items, key) ==
    items[CHOOSE i \in DOMAIN items :
              /\ ItemKey(items[i]) = key
              /\ \A j \in DOMAIN items : ItemKey(items[j]) = key => j <= i]

\* C1: comparing a declaration list with itself yields four empty lists, so
\* has_errors() is false, whatever the list and the ignore list.
C1_Identity ==
    (CmpDone /\ code_items = spec_items) => ~has_errors(result)

\* C2: replacing code_items or spec_items by a permutation of itself leaves
\* the set of keys in signature_mismatches and the set of keys in
\* attribute_mismatches unchanged.  (Exchanges of neighbours generate every
\* permutation.)
C2_ReorderKeepsMismatchKeys ==
    [][(cmp_pc = "done" /\ cmp_pc' = "done") =>
          /\ MismatchKeys(result'.signature_mismatches)
               = MismatchKeys(result.signature_mismatches)
          /\ MismatchKeys(result'.attribute_mismatches)
               = MismatchKeys(result.attribute_mismatches)]_vars

\* C3: permuting code_items or spec_items leaves the multiset of items in
\* missing_in_spec and the multiset of items in missing_in_code unchanged.
C3_MissingOrderIndependent ==
    [][(cmp_pc = "done" /\ cmp_pc' = "done") =>
          /\ BagOf(result'.missing_in_spec) = BagOf(result.missing_in_spec)
          /\ BagOf(result'.missing_in_code) = BagOf(result.missing_in_code)]_vars

\* After a reordering, two different items with one key are missing in the
\* spec and an item is missing in the code.
C3_Witness ==
    /\ CmpDone
    /\ reordered
    /\ Len(result.missing_in_spec) = 2
    /\ result.missing_in_spec[1] # result.missing_in_spec[2]
    /\ ItemKey(result.missing_in_spec[1]) = ItemKey(result.missing_in_spec[2])
    /\ result.missing_in_code # << >>

\* C4: a signature mismatch is recorded for a matched code item exactly when
\* its token sequence differs from that of the spec item matched to it,
\* whatever the spacing of the two signature strings.
C4_WhitespaceInsensitive ==
    CmpDone =>
        MismatchCodeItems(result.signature_mismatches)
            = SelectSeq(code_items,
                        LAMBDA c : /\ HasKey(spec_items, ItemKey(c))
                                   /\ c.tokens # Matched(spec_items, ItemKey(c)).tokens)

\* A matched pair with equal tokens and different signature strings, and no
\* signature mismatch.
C4_Witness ==
    /\ CmpDone
    /\ \E i \in DOMAIN code_items :
          /\ HasKey(spec_items, ItemKey(code_items[i]))
          /\ code_items[i].tokens = Matched(spec_items, ItemKey(code_items[i])).tokens
          /\ code_items[i].signature
               # Matched(spec_items, ItemKey(code_items[i])).signature
    /\ result.signature_mismatches = << >>

\* The attributes that contain no ignored name as a substring.
Remaining(attrs, ignored) ==
    SelectSeq(attrs, LAMBDA a : ~ \E n \in DOMAIN ignored : Contains(a, ignored[n]))

TrimAll(attrs) == [i \in DOMAIN attrs |-> Trim(attrs[i])]

\* C5 as stated: an attribute mismatch is recorded for a matched code item
\* exactly when the attributes that contain no ignored name, sorted, are not
\* equal on the two sides.
C5_AttributeMismatchUntrimmed ==
    CmpDone =>
        MismatchCodeItems(result.attribute_mismatches)
            = SelectSeq(code_items,
                LAMBDA c :
                    /\ HasKey(spec_items, ItemKey(c))
                    /\ BagOf(Remaining(c.attributes, ignored_attributes))
                         # BagOf(Remaining(Matched(spec_items, ItemKey(c)).attributes,
                                           ignored_attributes)))

\* C5 as amended: an attribute mismatch is recorded for a matched code item
\* exactly when the attributes that contain no ignored name, each trimmed of
\* the white space around it, sorted, are not equal on the two sides.
C5_AttributeMismatch ==
    CmpDone =>
        MismatchCodeItems(result.attribute_mismatches)
            = SelectSeq(code_items,
                LAMBDA c :
                    /\ HasKey(spec_items, ItemKey(c))
                    /\ BagOf(TrimAll(Remaining(c.attributes, ignored_attributes)))
                         # BagOf(TrimAll(Remaining(
                                Matched(spec_items, ItemKey(c)).attributes,
                                ignored_attributes))))

\* One side of a matched pair has an attribute that is not ignored and the
\* other side has none; the other attribute of the pair is ignored on both
\* sides; one attribute mismatch is recorded.
C5_Witness ==
    /\ CmpDone
    /\ code_items = << ItemA >>
    /\ spec_items = << ItemAUnit >>
    /\ ignored_attributes = << << "d" >> >>
    /\ Len(result.attribute_mismatches) = 1

\* C9: with no spec item, every code item is in missing_in_spec, in code
\* order, and the other three lists are empty.
C9_EmptySpec ==
    (CmpDone /\ spec_items = << >>) =>
        /\ result.missing_in_spec = code_items
        /\ result.missing_in_code = << >>
        /\ result.signature_mismatches = << >>
        /\ result.attribute_mismatches = << >>

\* One struct and an empty spec: one entry in missing_in_spec.
C9_Witness ==
    /\ CmpDone
    /\ spec_items = << >>
    /\ code_items = << ItemA >>
    /\ Len(result.missing_in_spec) = 1
    /\ Len(result.missing_in_code) = 0

(***************************************************************************)
(* Properties of extract_rust_blocks                                       *)
(***************************************************************************)
\* The pairs (i, j) of a start and the end of one closed fence tagged "rust":
\* only text events lie between the two.
ClosedRustFences(events) ==
    {p \in (DOMAIN events) \X (DOMAIN events) :
        /\ p[1] < p[2]
        /\ events[p[1]] = StartFencedEvent("rust")
        /\ events[p[2]] = EndFencedEvent("rust")
        /\ \A k \in (p[1] + 1)..(p[2] - 1) : events[k].type = "Text"}

RECURSIVE ConcatTexts(_, _, _)
\* The texts of the events i..j, concatenated.
ConcatTexts(events, i, j) ==
    IF i > j THEN << >>
    ELSE events[i].text \o ConcatTexts(events, i + 1, j)

\* One string per closed rust fence, in document order.
Samples(events) ==
    LET fences == ClosedRustFences(events)
        nth(k) == CHOOSE p \in fences :
                      Cardinality({q \in fences : q[1] < p[1]}) = k - 1
    IN  [k \in 1..Cardinality(fences) |->
            ConcatTexts(events, nth(k)[1] + 1, nth(k)[2] - 1)]

ParseDone == parse_pc = "done" /\ parsed.ok

RECURSIVE ModuleScope(_)
\* The items at module scope: those of the file and of its inline modules.
ModuleScope(items) ==
    IF items = << >> THEN << >>
    ELSE (IF Head(items).node = "mod"
          THEN ModuleScope(Head(items).items)
          ELSE << Head(items) >>) \o ModuleScope(Tail(items))

\* The kind of the record of a declaration.
KindOfNode(n) ==
    CASE n.node = "struct" -> KindStruct
      [] n.node = "enum" -> KindEnum
      [] n.node = "trait" -> KindTrait
      [] n.node = "fn" -> KindFunction

IsDeclaration(n) == n.node \in {"struct", "enum", "trait", "fn"}

\* The tokens begin with pub, and not with pub(..).
IsPubTokens(tokens) ==
    /\ Len(tokens) >= 2
    /\ tokens[1] = "p"
    /\ tokens[2] # "("

\* Record k is the record of an explicitly public declaration, or of a method
\* that follows the record of its explicitly public trait.
RecordIsPublic(items, k) ==
    IF items[k].kind.tag = "TraitMethod"
    THEN \E j \in 1..(k - 1) :
            /\ items[j].kind = KindTrait
            /\ items[j].name = items[k].kind.trait_name
            /\ IsPubTokens(items[j].tokens)
            /\ \A m \in (j + 1)..k : items[m].kind = items[k].kind
    ELSE IsPubTokens(items[k].tokens)

\* The methods of a trait, in declaration order.
MethodsOf(d) == SelectSeq(d.items, LAMBDA t : t.node = "fn")

\* At k the record of the trait d, then one record for each of its methods, in
\* order, with the name of the trait, and no method record after them.
TraitBlockAt(items, k, d) ==
    LET fns == MethodsOf(d)
        n == Len(fns)
    IN  /\ items[k].kind = KindTrait
        /\ items[k].name = d.ident
        /\ k + n <= Len(items)
        /\ \A j \in 1..n :
              /\ items[k + j].name = fns[j].ident
              /\ items[k + j].kind = KindTraitMethod(d.ident)
        /\ k + n + 1 <= Len(items) => items[k + n + 1].kind.tag # "TraitMethod"

\* C7: with check_private = false no record is returned for a struct, enum,
\* trait or function that is not explicitly public, nor for a method of such
\* a trait; with check_private = true every such declaration at module scope
\* is returned, a trait with its methods.
C7_VisibilityGate ==
    ParseDone =>
        /\ ~ check_private =>
              \A k \in DOMAIN parsed.items : RecordIsPublic(parsed.items, k)
        /\ check_private =>
              \A d \in Range(ModuleScope(content)) :
                  (IsDeclaration(d) /\ d.vis # VisPublic) =>
                      \E k \in DOMAIN parsed.items :
                          /\ parsed.items[k].name = d.ident
                          /\ parsed.items[k].kind = KindOfNode(d)
                          /\ ~ IsPubTokens(parsed.items[k].tokens)
                          /\ d.node = "trait" => TraitBlockAt(parsed.items, k, d)

\* A private struct and a public struct, check_private = false: one record.
C7_Witness ==
    /\ ParseDone
    /\ ~ check_private
    /\ content = << PrivStructB, PubStructA >>
    /\ Len(parsed.items) = 1
    /\ parsed.items[1].name = "A"

RECURSIVE TraitRecordCount(_)
\* 1 + n for every trait with n methods of a sequence of traits, added up.
TraitRecordCount(traits) ==
    IF traits = << >> THEN 0
    ELSE 1 + Len(MethodsOf(Head(traits))) + TraitRecordCount(Tail(traits))

\* The traits at module scope that pass the visibility gate.
IncludedTraits ==
    SelectSeq(ModuleScope(content),
              LAMBDA d : d.node = "trait" /\ (check_private \/ d.vis = VisPublic))

\* C8: an included trait with n methods yields 1 + n records: its Trait record
\* followed by one TraitMethod record for each method, in declaration order,
\* with the name of the trait; constants, types and macros yield none.
C8_TraitMethodScoping ==
    ParseDone =>
        /\ \A d \in Range(IncludedTraits) :
              \E k \in DOMAIN parsed.items : TraitBlockAt(parsed.items, k, d)
        /\ Cardinality({k \in DOMAIN parsed.items :
                           parsed.items[k].kind.tag \in {"Trait", "TraitMethod"}})
             = TraitRecordCount(IncludedTraits)

\* The trait T with two methods, a constant, a type and a macro: three records.
C8_Witness ==
    /\ ParseDone
    /\ content = << PubTraitT >>
    /\ Len(parsed.items) = 3
    /\ parsed.items[2].kind = KindTraitMethod("T")
    /\ parsed.items[3].kind = KindTraitMethod("T")

\* The declarations at module scope that pass the visibility gate, each as
\* the name and the kind of its record.
ModuleScopeDeclarations ==
    LET ds == SelectSeq(ModuleScope(content),
                        LAMBDA d : /\ IsDeclaration(d)
                                   /\ (check_private \/ d.vis = VisPublic))
    IN  [i \in DOMAIN ds |-> [name |-> ds[i].ident, kind |-> KindOfNode(ds[i])]]

\* The records returned that are not records of trait methods, each as its
\* name and its kind.
DeclarationRecords ==
    LET rs == SelectSeq(parsed.items, LAMBDA r : r.kind.tag # "TraitMethod")
    IN  [i \in DOMAIN rs |-> [name |-> rs[i].name, kind |-> rs[i].kind]]

\* C14: the records returned are those of the declarations at module scope and
\* of the methods of the traits among them; a declaration inside a function
\* body, an impl block or the default body of a trait method has no record.
C14_DepthOfWalk ==
    ParseDone =>
        /\ DeclarationRecords = ModuleScopeDeclarations
        /\ \A k \in DOMAIN parsed.items :
              parsed.items[k].kind.tag = "TraitMethod" =>
                  \E d \in Range(ModuleScope(content)) :
                      /\ d.node = "trait"
                      /\ d.ident = parsed.items[k].kind.trait_name
                      /\ \E m \in Range(MethodsOf(d)) : m.ident = parsed.items[k].name

\* The text or the token sequence holds the # of an attribute.
HoldsAttribute(s) == \E i \in DOMAIN s : s[i] = "#"

\* The record of a struct, of an enum, or of a trait method declared without
\* a default body: all its attributes are at the places the claim names.
AttributesOnlyAtNamedPlaces(r) ==
    \/ r.kind.tag \in {"Struct", "Enum"}
    \/ r.kind.tag = "TraitMethod" /\ r.tokens[Len(r.tokens)] = ";"

\* C15: the signature and the tokens of an extracted item hold no attribute,
\* neither of the item nor of its fields, variants, variant fields, trait
\* methods or trait-method parameters.
C15_AttributeStripping ==
    ParseDone =>
        \A k \in DOMAIN parsed.items :
            AttributesOnlyAtNamedPlaces(parsed.items[k]) =>
                /\ ~ HoldsAttribute(parsed.items[k].tokens)
                /\ ~ HoldsAttribute(parsed.items[k].signature)

(***************************************************************************)
(* Properties of main                                                      *)
(***************************************************************************)
\* The loop has taken mapping k: it went through it, or main failed in it.
Taken(k) == k < next_file \/ (main_pc = "failed" /\ k = next_file)

\* C10: a source file whose mapping has no spec file is reported as "no spec
\* found", and neither the declaration extractor nor the comparator is invoked
\* for it, whatever its source text.
C10_MissingSpecSkipsCore ==
    \A k \in DOMAIN mappings :
        (Taken(k) /\ mappings[k].rust_file.readable /\ ~ mappings[k].spec_file.some)
            => /\ \E i \in DOMAIN log :
                     log[i] = [kind |-> "missing_spec", file |-> k]
               /\ \A i \in DOMAIN invoked : invoked[i].file # k

\* The comparisons made so far, as indices of invoked.
Comparisons == {i \in DOMAIN invoked : invoked[i].fn = "compare_items"}

\* The samples of the spec file of mapping k that parse, in sample order.
ParsingSamples(k) ==
    SelectSeq(extract_rust_blocks(mappings[k].spec_file.val.holds), ParsesAsFile)

\* The items of the samples of the spec file of mapping k that parse.
ItemsOfParsingSamples(k) ==
    Flatten([i \in DOMAIN ParsingSamples(k) |->
                parse_rust_file(ParsingSamples(k)[i], config.check_private).items])

\* Mapping k has a sample that does not parse.
HasFailingSample(k) ==
    /\ mappings[k].spec_file.some
    /\ \E i \in DOMAIN extract_rust_blocks(mappings[k].spec_file.val.holds) :
          ~ ParsesAsFile(extract_rust_blocks(mappings[k].spec_file.val.holds)[i])

\* Both files of mapping k can be read and the source parses.
Comparable(k) ==
    /\ mappings[k].rust_file.readable
    /\ ParsesAsFile(mappings[k].rust_file.holds)
    /\ mappings[k].spec_file.some
    /\ mappings[k].spec_file.val.readable

\* C11: the spec items passed to compare_items are the items of the samples
\* that parsed, concatenated in sample order; a sample that fails stops
\* neither the comparison of its file nor the loop.
C11_SampleFailureIsolation ==
    /\ \A i \in Comparisons :
          invoked[i].spec_items = ItemsOfParsingSamples(invoked[i].file)
    /\ \A k \in DOMAIN mappings :
          (Taken(k) /\ Comparable(k))
              => /\ \E i \in Comparisons : invoked[i].file = k
                 /\ k < next_file

\* A file with a failing sample between two good ones was compared with the
\* items of the good ones, and the file after it was compared as well.
C11_Witness ==
    \E i, j \in Comparisons :
        /\ invoked[i].file = 1
        /\ invoked[j].file = 2
        /\ HasFailingSample(1)
        /\ Len(ParsingSamples(1)) >= 2
        /\ ParsingSamples(1)[Len(ParsingSamples(1))] # ParsingSamples(1)[1]
        /\ invoked[i].spec_items # << >>

(***************************************************************************)
(* compare_items: duplicate keys                                           *)
(***************************************************************************)
\* The records a list of mismatches must hold: one per code item, in code
\* order, that has its key in the spec and differs (by Differs) from the last
\* spec item with its key, paired with that spec item.
PairsWithLast(Differs(_, _)) ==
    LET hit == SelectSeq(code_items,
                   LAMBDA c : /\ HasKey(spec_items, ItemKey(c))
                              /\ Differs(c, Matched(spec_items, ItemKey(c))))
    IN  [i \in DOMAIN hit |->
            [code_item |-> hit[i],
             spec_item |-> Matched(spec_items, ItemKey(hit[i]))]]

\* The records of a list of mismatches without their first_diff_pos.
Pairs(list) ==
    [i \in DOMAIN list |->
        [code_item |-> list[i].code_item, spec_item |-> list[i].spec_item]]

TokensDiffer(c, sp) == c.tokens # sp.tokens

RemainingAttributesDiffer(c, sp) ==
    BagOf(TrimAll(Remaining(c.attributes, ignored_attributes)))
        # BagOf(TrimAll(Remaining(sp.attributes, ignored_attributes)))

\* C12: every code item whose key the spec has is compared, signature and
\* attributes, with the last spec item of that key and with no other; a spec
\* item is in missing_in_code exactly when no code item has its key.
C12_LastWriteWins ==
    CmpDone =>
        /\ Pairs(result.signature_mismatches) = PairsWithLast(TokensDiffer)
        /\ result.attribute_mismatches = PairsWithLast(RemainingAttributesDiffer)
        /\ result.missing_in_code
             = SelectSeq(spec_items, LAMBDA sp : ~ HasKey(code_items, ItemKey(sp)))

\* Two spec items of one key with different tokens: the code item equals the
\* first and is reported against the last; a second spec item of a key the
\* code has is not missing in the code.
C12_Witness ==
    /\ CmpDone
    /\ Len(spec_items) = 2
    /\ Len(code_items) = 1
    /\ ItemKey(spec_items[1]) = ItemKey(spec_items[2])
    /\ spec_items[1].tokens # spec_items[2].tokens
    /\ code_items[1] = spec_items[1]
    /\ Len(result.signature_mismatches) = 1
    /\ result.signature_mismatches[1].spec_item = spec_items[2]
    /\ result.missing_in_code = << >>

(***************************************************************************)
(* find_first_diff                                                         *)
(***************************************************************************)
\* The positions (from 1) at which both strings have a character and the two
\* characters differ.
DifferingPositions(a, b) == {i \in 1..Min(Len(a), Len(b)) : a[i] # b[i]}

\* The offset, in characters from 0, of the first difference of two strings.
FirstDifference(a, b) ==
    IF DifferingPositions(a, b) # {}
    THEN Some((CHOOSE i \in DifferingPositions(a, b) :
                  \A j \in DifferingPositions(a, b) : i <= j) - 1)
    ELSE IF Len(a) # Len(b) THEN Some(Min(Len(a), Len(b)))
    ELSE None

\* C13: first_diff_pos of a signature mismatch is the index of the first
\* character at which the two signature strings differ; the length in
\* characters of the shorter one if it is a strict prefix of the other; none
\* exactly when the strings are equal.
C13_FirstDifferenceOffset ==
    CmpDone =>
        \A i \in DOMAIN result.signature_mismatches :
            LET r == result.signature_mismatches[i]
            IN  /\ r.first_diff_pos
                     = FirstDifference(r.code_item.signature, r.spec_item.signature)
                /\ (~ r.first_diff_pos.some)
                     <=> r.code_item.signature = r.spec_item.signature

(***************************************************************************)
(* main: the counters                                                      *)
(***************************************************************************)
\* The mappings the loop has gone through that were reported with an error:
\* as missing their spec, or with a result that has errors.
ReportedWithError ==
    {k \in 1..(next_file - 1) :
        \E i \in DOMAIN log :
            \/ log[i].kind = "missing_spec" /\ log[i].file = k
            \/ log[i].kind = "results" /\ log[i].file = k
                 /\ has_errors(log[i].result)}

SummaryLines == {i \in DOMAIN log : log[i].kind = "summary"}

\* C16: files_with_errors counts each mapping gone through at most once (when
\* its spec is missing or its result has errors), so it is at most the number
\* of mappings gone through, which is at most total_files; "Files passing"
\* is never negative; after the loop the exit is a failure exactly when
\* files_with_errors > 0.
C16_Counters ==
    /\ main_pc # "idle" =>
          /\ files_with_errors = Cardinality(ReportedWithError)
          /\ files_with_errors <= next_file - 1
          /\ next_file - 1 <= total_files
    /\ \A i \in SummaryLines :
          /\ log[i].passing >= 0
          /\ log[i].passing = log[i].total - log[i].errors
          /\ log[i].total = total_files
          /\ log[i].errors = files_with_errors
    /\ main_pc = "exit_failure" => (SummaryLines # {} /\ files_with_errors > 0)
    /\ main_pc = "exit_ok" => (SummaryLines # {} /\ files_with_errors = 0)
    /\ SummaryLines # {} => main_pc \in {"exit_failure", "exit_ok"}

\* Two files, one without spec and one that agrees with its spec: one file
\* with errors, one passing, exit with failure.
C16_Witness ==
    /\ main_pc = "exit_failure"
    /\ total_files = 2
    /\ files_with_errors = 1
    /\ \E i \in DOMAIN log : log[i].kind = "missing_spec"
    /\ \E i \in DOMAIN log : log[i].kind = "results" /\ ~ has_errors(log[i].result)
    /\ \E i \in SummaryLines : log[i].passing = 1

(***************************************************************************)
(* compare_items: the classification of the items                          *)
(***************************************************************************)
RECURSIVE IsSubsequence(_, _)
\* The entries of s occur in t in the order of s, each at a place of its own.
IsSubsequence(s, t) ==
    IF s = << >> THEN TRUE
    ELSE IF t = << >> THEN FALSE
    ELSE IF Head(s) = Head(t) THEN IsSubsequence(Tail(s), Tail(t))
    ELSE IsSubsequence(s, Tail(t))

\* The code items whose key the spec has, in code order.
MatchedCodeItems == SelectSeq(code_items, LAMBDA c : HasKey(spec_items, ItemKey(c)))

\* The keys of a list of items.
KeysOf(items) == {ItemKey(items[i]) : i \in DOMAIN items}

\* C17: a code item is in missing_in_spec exactly when the spec has not its
\* key, and is matched otherwise; each list of mismatches holds at most one
\* record per matched code item, in code order; no key is both in
\* missing_in_code and in one of the three other lists.
C17_ClassificationPartition ==
    CmpDone =>
        /\ result.missing_in_spec
             = SelectSeq(code_items, LAMBDA c : ~ HasKey(spec_items, ItemKey(c)))
        /\ Len(result.missing_in_spec) + Len(MatchedCodeItems) = Len(code_items)
        /\ IsSubsequence(MismatchCodeItems(result.signature_mismatches),
                         MatchedCodeItems)
        /\ IsSubsequence(MismatchCodeItems(result.attribute_mismatches),
                         MatchedCodeItems)
        /\ KeysOf(result.missing_in_code)
             \cap (KeysOf(result.missing_in_spec)
                     \cup MismatchKeys(result.signature_mismatches)
                     \cup MismatchKeys(result.attribute_mismatches)) = {}

\* One code item without its key in the spec, one matched with a signature
\* mismatch and an attribute mismatch, and one spec item without its key in
\* the code.
C17_Witness ==
    /\ CmpDone
    /\ Len(code_items) = 2
    /\ Len(result.missing_in_spec) = 1
    /\ Len(result.signature_mismatches) = 1
    /\ Len(result.attribute_mismatches) = 1
    /\ Len(result.missing_in_code) = 1

=============================================================================
